---- MODULE Spec2Model ----
(***************************************************************************)
(* padded-column: Display::fmt of PaddedItem (src/src/item.rs:74-102).     *)
(* PaddedValue::fmt (src/src/value.rs:74-102) is line for line the same    *)
(* function over a struct with the same five fields, so one state machine  *)
(* stands for both.                                                        *)
(*                                                                         *)
(* A request is rendered twice, each time to a sink of its own.  A sink    *)
(* accepts a bounded number of writes and fails every write after that.    *)
(* Text is a sequence of characters; a character is one or two columns     *)
(* wide.                                                                   *)
(***************************************************************************)
EXTENDS Naturals, Sequences, FiniteSets

\* ---------------------------------------------------------------- bounds
MaxLen == 2
MaxWidth == 4

\* One render makes at most MaxWidth + 1 writes: a sink given FuelMax never fails.
FuelMax == MaxWidth + 1

\* ------------------------------------------------------------ data model
ValueChars == {"a", "W"}
PadBlocks == {"-", "="}
Directions == {"Left", "Right"}
Handlers == {"ForbidExcess", "IgnoreExcess"}
Calls == {1, 2}

Values == UNION {[1..n -> ValueChars] : n \in 0..MaxLen}

Requests ==
    [value : Values, pad_block : PadBlocks, total_width : 0..MaxWidth,
     pad_direction : Directions, handle_excess : Handlers]

NoExcess == [none |-> TRUE]

CharWidth(c) == IF c \in {"W", "="} THEN 2 ELSE 1

RECURSIVE Width(_)
Width(v) == IF v = <<>> THEN 0 ELSE CharWidth(Head(v)) + Width(Tail(v))

VARIABLES
    req,            \* the PaddedItem: value, pad_block, total_width, pad_direction, handle_excess
    call,           \* which of the two renders is running
    pc,             \* position inside fmt
    sink,           \* sink[c]: what the sink of render c has received
    fuel,           \* fuel[c]: writes the sink of render c still accepts
    result,         \* result[c]: what render c returned
    value_width,    \* local of fmt
    pad_width,      \* local of fmt
    pad_i,          \* blocks the repeat iterator has emitted
    pending,        \* arguments of write! not yet formatted
    excess,         \* the Excess record handed to the handler
    handlerResult,  \* what the handler returned
    measures,       \* calls of value.width() in this render
    padBranches,    \* times this render took the padding branch
    handlerCalls,   \* times this render invoked the handler
    padWrites,      \* pad blocks this render's fmt wrote
    valueWrites,    \* times this render's fmt wrote the value
    handlerWrites,  \* writes the handler made
    attempts,       \* writes attempted on the sink in this render
    afterFail,      \* writes attempted after the sink's first failure
    sinkFailed,     \* the sink has failed a write in this render
    fuel0,          \* fuel as chosen at the start
    req0            \* the request as constructed

vars == <<req, call, pc, sink, fuel, result, value_width, pad_width, pad_i,
          pending, excess, handlerResult, measures, padBranches, handlerCalls,
          padWrites, valueWrites, handlerWrites, attempts, afterFail,
          sinkFailed, fuel0, req0>>

locals == <<value_width, pad_width, pad_i, pending, excess, handlerResult>>
counters == <<measures, padBranches, handlerCalls, padWrites, valueWrites,
              handlerWrites>>
sinkState == <<sink, fuel, attempts, afterFail, sinkFailed>>
frozen == <<req, call, fuel0, req0>>

Init ==
    /\ req \in Requests
    /\ req0 = req
    /\ call = 1
    /\ pc = "start"
    /\ sink = [c \in Calls |-> <<>>]
    /\ fuel \in [Calls -> 0..FuelMax]
    /\ fuel0 = fuel
    /\ result = [c \in Calls |-> "none"]
    /\ value_width = 0
    /\ pad_width = 0
    /\ pad_i = 0
    /\ pending = <<>>
    /\ excess = NoExcess
    /\ handlerResult = "none"
    /\ measures = 0
    /\ padBranches = 0
    /\ handlerCalls = 0
    /\ padWrites = 0
    /\ valueWrites = 0
    /\ handlerWrites = 0
    /\ attempts = 0
    /\ afterFail = 0
    /\ sinkFailed = FALSE

\* ------------------------------------------------------------- the sink
SinkAccepts == fuel[call] > 0

\* One write call on the formatter of the running render.
SinkWrite(text) ==
    /\ attempts' = attempts + 1
    /\ afterFail' = IF sinkFailed THEN afterFail + 1 ELSE afterFail
    /\ IF SinkAccepts
       THEN /\ sink' = [sink EXCEPT ![call] = @ \o text]
            /\ fuel' = [fuel EXCEPT ![call] = @ - 1]
            /\ sinkFailed' = sinkFailed
       ELSE /\ UNCHANGED <<sink, fuel>>
            /\ sinkFailed' = TRUE

\* ------------------------------------------------------------------ fmt
\* let value_width = value.width();
Measure ==
    /\ pc = "start"
    /\ value_width' = Width(req.value)
    /\ measures' = measures + 1
    /\ pc' = "compare"
    /\ UNCHANGED <<pad_width, pad_i, pending, excess, handlerResult>>
    /\ UNCHANGED <<padBranches, handlerCalls, padWrites, valueWrites, handlerWrites>>
    /\ UNCHANGED <<sinkState, frozen, result>>

FitsMutant(total, width) == total > width
\* if total_width >= value_width
Fits(total, width) == total >= width

PadWidthMutant(total, width) == total
\* total_width - value_width
PadWidth(total, width) == total - width

RepeatStartStale == pad_i
\* fmt_iter::repeat(pad_block, pad_width) starts a fresh repetition
RepeatStart == 0

WriteOrderMutant(dir) == IF dir = "Left" THEN <<"value", "pad">> ELSE <<"pad", "value">>
\* match *pad_direction: the order of the two arguments of write!
WriteOrder(dir) == IF dir = "Left" THEN <<"pad", "value">> ELSE <<"value", "pad">>

PadBranch ==
    /\ pc = "compare"
    /\ Fits(req.total_width, value_width)
    /\ pad_width' = PadWidth(req.total_width, value_width)
    /\ pad_i' = RepeatStart
    /\ pending' = WriteOrder(req.pad_direction)
    /\ padBranches' = padBranches + 1
    /\ pc' = "write"
    /\ UNCHANGED <<value_width, excess, handlerResult>>
    /\ UNCHANGED <<measures, handlerCalls, padWrites, valueWrites, handlerWrites>>
    /\ UNCHANGED <<sinkState, frozen, result>>

MkExcessMutant(value, width, total, block) ==
    [value |-> value, value_width |-> total, total_width |-> width, pad_block |-> block]
\* Excess { value, value_width, total_width, pad_block }
MkExcess(value, width, total, block) ==
    [value |-> value, value_width |-> width, total_width |-> total, pad_block |-> block]

ExcessBranch ==
    /\ pc = "compare"
    /\ ~Fits(req.total_width, value_width)
    /\ excess' = MkExcess(req.value, value_width, req.total_width, req.pad_block)
    /\ handlerCalls' = handlerCalls + 1
    /\ pc' = "handler"
    /\ UNCHANGED <<value_width, pad_width, pad_i, pending, handlerResult>>
    /\ UNCHANGED <<measures, padBranches, padWrites, valueWrites, handlerWrites>>
    /\ UNCHANGED <<sinkState, frozen, result>>

\* ForbidExcess: fails, writes nothing.
ForbidExcess ==
    /\ pc = "handler"
    /\ req.handle_excess = "ForbidExcess"
    /\ handlerResult' = "Err"
    /\ pc' = "handled"
    /\ UNCHANGED <<value_width, pad_width, pad_i, pending, excess>>
    /\ UNCHANGED counters
    /\ UNCHANGED <<sinkState, frozen, result>>

\* IgnoreExcess: writes the value of the Excess record, nothing else.
IgnoreExcess ==
    /\ pc = "handler"
    /\ req.handle_excess = "IgnoreExcess"
    /\ SinkWrite(excess.value)
    /\ handlerWrites' = handlerWrites + 1
    /\ handlerResult' = IF SinkAccepts THEN "Ok" ELSE "Err"
    /\ pc' = "handled"
    /\ UNCHANGED <<value_width, pad_width, pad_i, pending, excess>>
    /\ UNCHANGED <<measures, padBranches, handlerCalls, padWrites, valueWrites>>
    /\ UNCHANGED <<frozen, result>>

HandlerReturnMutant(r) == "Ok"
\* return handle_excess.handle_excess(..)
HandlerReturn(r) == r

ExcessReturn ==
    /\ pc = "handled"
    /\ result' = [result EXCEPT ![call] = HandlerReturn(handlerResult)]
    /\ pc' = "done"
    /\ UNCHANGED locals
    /\ UNCHANGED counters
    /\ UNCHANGED <<sinkState, frozen>>

RepeatHasNextMutant(i, n) == i <= n
\* the repetition yields its item pad_width times
RepeatHasNext(i, n) == i < n

PropagateMutant(ok, rest) ==
    /\ pending' = rest
    /\ UNCHANGED <<pc, result>>
\* a failed write ends write! with that error; otherwise formatting goes on
Propagate(ok, rest) ==
    IF ok
    THEN /\ pending' = rest
         /\ UNCHANGED <<pc, result>>
    ELSE /\ pc' = "done"
         /\ result' = [result EXCEPT ![call] = "Err"]
         /\ pending' = pending

\* one pad_block of the repetition
WritePad ==
    /\ pc = "write"
    /\ pending # <<>>
    /\ Head(pending) = "pad"
    /\ RepeatHasNext(pad_i, pad_width)
    /\ SinkWrite(<<req.pad_block>>)
    /\ pad_i' = pad_i + 1
    /\ padWrites' = IF SinkAccepts THEN padWrites + 1 ELSE padWrites
    /\ Propagate(SinkAccepts, pending)
    /\ UNCHANGED <<value_width, pad_width, excess, handlerResult>>
    /\ UNCHANGED <<measures, padBranches, handlerCalls, valueWrites, handlerWrites>>
    /\ UNCHANGED frozen

\* the repetition is exhausted
PadEnd ==
    /\ pc = "write"
    /\ pending # <<>>
    /\ Head(pending) = "pad"
    /\ ~RepeatHasNext(pad_i, pad_width)
    /\ pending' = Tail(pending)
    /\ UNCHANGED <<value_width, pad_width, pad_i, excess, handlerResult>>
    /\ UNCHANGED counters
    /\ UNCHANGED <<sinkState, frozen, result, pc>>

\* the value's own Display: one write of its whole rendering
WriteValue ==
    /\ pc = "write"
    /\ pending # <<>>
    /\ Head(pending) = "value"
    /\ SinkWrite(req.value)
    /\ valueWrites' = IF SinkAccepts THEN valueWrites + 1 ELSE valueWrites
    /\ Propagate(SinkAccepts, Tail(pending))
    /\ UNCHANGED <<value_width, pad_width, pad_i, excess, handlerResult>>
    /\ UNCHANGED <<measures, padBranches, handlerCalls, padWrites, handlerWrites>>
    /\ UNCHANGED frozen

\* write! has formatted both arguments
WriteReturn ==
    /\ pc = "write"
    /\ pending = <<>>
    /\ result' = [result EXCEPT ![call] = "Ok"]
    /\ pc' = "done"
    /\ UNCHANGED locals
    /\ UNCHANGED counters
    /\ UNCHANGED <<sinkState, frozen>>

\* The caller renders the same request again, to the second sink.
NextCall ==
    /\ pc = "done"
    /\ call = 1
    /\ call' = 2
    /\ pc' = "start"
    /\ measures' = 0
    /\ padBranches' = 0
    /\ handlerCalls' = 0
    /\ padWrites' = 0
    /\ valueWrites' = 0
    /\ handlerWrites' = 0
    /\ attempts' = 0
    /\ afterFail' = 0
    /\ sinkFailed' = FALSE
    /\ excess' = NoExcess
    /\ handlerResult' = "none"
    /\ pending' = <<>>
    /\ UNCHANGED <<value_width, pad_width, pad_i>>
    /\ UNCHANGED <<req, req0, fuel0, sink, fuel, result>>

Next ==
    \/ Measure
    \/ PadBranch
    \/ ExcessBranch
    \/ ForbidExcess
    \/ IgnoreExcess
    \/ ExcessReturn
    \/ WritePad
    \/ PadEnd
    \/ WriteValue
    \/ WriteReturn
    \/ NextCall

Spec == Init /\ [][Next]_vars

FairSpec == Init /\ [][Next]_vars /\ WF_vars(Next)

\* ------------------------------------------------------------ properties
Done == pc = "done"
Succeeded == Done /\ result[call] = "Ok"
ValueWidth == Width(req.value)
FitsRequest == ValueWidth <= req.total_width
ExcessRequest == req.total_width < ValueWidth
PadCount == req.total_width - ValueWidth

RECURSIVE Repeated(_, _)
Repeated(block, n) == IF n = 0 THEN <<>> ELSE <<block>> \o Repeated(block, n - 1)

PadText == Repeated(req.pad_block, PadCount)

\* C1: with value_width <= total_width and direction Left (Before), a
\* successful fmt leaves in the sink exactly pad_block repeated
\* (total_width - value_width) times followed by the value's rendering.
C1_PadBefore ==
    (Succeeded /\ FitsRequest /\ req.pad_direction = "Left")
        => sink[call] = PadText \o req.value

C1_Witness ==
    /\ Succeeded
    /\ req.pad_direction = "Left"
    /\ ValueWidth < req.total_width
    /\ Len(req.value) < ValueWidth
    /\ padWrites >= 2

\* C2: with value_width <= total_width and direction Right (After), a
\* successful fmt leaves in the sink exactly the value's rendering followed
\* by pad_block repeated (total_width - value_width) times.
C2_PadAfter ==
    (Succeeded /\ FitsRequest /\ req.pad_direction = "Right")
        => sink[call] = req.value \o PadText

C2_Witness ==
    /\ Succeeded
    /\ req.pad_direction = "Right"
    /\ ValueWidth < req.total_width
    /\ Len(req.value) < ValueWidth
    /\ padWrites >= 2

\* C3: with value_width <= total_width and a pad block one column wide, the
\* measured width of the complete output of a successful fmt is total_width,
\* in both directions; the pad count is total_width - value_width and is
\* never negative.
C3_ExactWidth ==
    /\ (padBranches = 1) => (pad_width \in Nat /\ pad_width + ValueWidth = req.total_width)
    /\ (Succeeded /\ FitsRequest /\ CharWidth(req.pad_block) = 1)
           => Width(sink[call]) = req.total_width

C3_Witness ==
    /\ Succeeded
    /\ CharWidth(req.pad_block) = 1
    /\ ValueWidth < req.total_width
    /\ Len(req.value) < ValueWidth
    /\ req.pad_direction = "Right"

\* C4: when value_width = total_width, fmt takes the padding branch and
\* writes no pad block; the handler is never invoked; the output is the
\* value's rendering whatever the direction, and the call succeeds whenever
\* the sink accepts the write, also with ForbidExcess.
C4_EqualWidthIsPadding ==
    (ValueWidth = req.total_width) =>
        /\ handlerCalls = 0
        /\ padWrites = 0
        /\ (pc \notin {"start", "compare"}) => padBranches = 1
        /\ Done => (result[call] = "Ok" <=> ~sinkFailed)
        /\ Succeeded => sink[call] = req.value

C4_Witness ==
    /\ Succeeded
    /\ ValueWidth = req.total_width
    /\ req.value # <<>>
    /\ req.handle_excess = "ForbidExcess"
    /\ sink[call] = req.value

\* C5: when total_width < value_width, fmt writes nothing itself; it invokes
\* the handler once, with an Excess record of the value, the measured width,
\* the requested total width and the pad block, and returns the handler's
\* result; the handler is invoked in no other case.
C5_ExcessDelegates ==
    /\ (handlerCalls > 0) => ExcessRequest
    /\ ExcessRequest =>
        /\ padWrites = 0
        /\ valueWrites = 0
        /\ attempts = handlerWrites
        /\ handlerCalls <= 1
        /\ (pc \in {"handler", "handled", "done"}) =>
              /\ handlerCalls = 1
              /\ excess = [value |-> req.value, value_width |-> ValueWidth,
                           total_width |-> req.total_width,
                           pad_block |-> req.pad_block]
        /\ Done => result[call] = handlerResult

C5_Witness ==
    /\ Done
    /\ ExcessRequest
    /\ req.total_width > 0
    /\ handlerCalls = 1
    /\ handlerWrites = 1
    /\ result[call] = "Ok"

\* C6: when value_width > total_width, in either direction: with
\* ForbidExcess fmt returns an error and the sink receives nothing; with
\* IgnoreExcess fmt succeeds (the sink accepting the write) and the sink
\* receives exactly the value's rendering, with no pad block.
C6_ForbidAndIgnore ==
    (Done /\ ExcessRequest) =>
        /\ (req.handle_excess = "ForbidExcess") =>
              (result[call] = "Err" /\ sink[call] = <<>> /\ attempts = 0)
        /\ (req.handle_excess = "IgnoreExcess") =>
              /\ result[call] = "Ok" <=> ~sinkFailed
              /\ sink[call] = IF sinkFailed THEN <<>> ELSE req.value
              /\ attempts = 1

C6_Witness ==
    /\ Done
    /\ call = 2
    /\ ExcessRequest
    /\ req.handle_excess = "ForbidExcess"
    /\ result[1] = "Err"
    /\ result[2] = "Err"
    /\ fuel0[1] > 0

\* C7 as stated: the handler is invoked exactly when the value's width
\* meets or exceeds the total width.
C7_Original ==
    Done => (handlerCalls = 1 <=> ValueWidth >= req.total_width)

\* C7 as amended: the handler is invoked exactly when the value's width
\* exceeds the total width; a value exactly as wide as the total width is
\* padded with zero blocks.
C7_InvokedIffExceeds ==
    /\ (handlerCalls > 0) => ValueWidth > req.total_width
    /\ Done => (handlerCalls = 1 <=> ValueWidth > req.total_width)

C7_Witness ==
    /\ Done
    /\ ValueWidth = req.total_width
    /\ ValueWidth > 0
    /\ handlerCalls = 0
    /\ padBranches = 1

\* C8: a failed write ends the render at once: no write is attempted after
\* the first failure, the failure is what fmt returns, and fmt returns an
\* error only if a write or the handler failed.
C8_WriteFailureAborts ==
    /\ afterFail = 0
    /\ sinkFailed => pc \in {"handled", "done"}
    /\ (Done /\ sinkFailed) => result[call] = "Err"
    /\ (result[call] = "Err") => (sinkFailed \/ handlerResult = "Err")

C8_Witness ==
    /\ Done
    /\ sinkFailed
    /\ padBranches = 1
    /\ padWrites >= 1
    /\ req.pad_direction = "Left"
    /\ pending = <<"pad", "value">>
    /\ pad_i < pad_width
    /\ result[call] = "Err"

\* C9: the request is the same after fmt as before it, and two renders of
\* it to two sinks that behave alike give the same output and the same
\* result; two renders that both succeed give the same output.
C9_Idempotent ==
    /\ req = req0
    /\ (Done /\ call = 2 /\ fuel0[1] = fuel0[2]) =>
          (sink[1] = sink[2] /\ result[1] = result[2])
    /\ (Done /\ call = 2 /\ result[1] = "Ok" /\ result[2] = "Ok") =>
          sink[1] = sink[2]

C9_Witness ==
    /\ Done
    /\ call = 2
    /\ result[1] = "Ok"
    /\ result[2] = "Ok"
    /\ fuel0[1] # fuel0[2]
    /\ Len(sink[2]) >= 3
    /\ sink[1] = sink[2]
    /\ padWrites >= 2

C10_SinglePassInv ==
    /\ measures <= 1
    /\ (pc # "start") => measures = 1
    /\ (attempts > 0) => measures = 1
    /\ padBranches + handlerCalls <= 1
    /\ (pc \notin {"start", "compare"}) => padBranches + handlerCalls = 1
    /\ valueWrites <= 1
    /\ (padBranches = 1) => padWrites <= PadCount
    /\ (Succeeded /\ padBranches = 1) => (valueWrites = 1 /\ padWrites = PadCount)

\* C10: every render is one pass: the width is measured once and before any
\* write, exactly one of the two branches is taken, the padding branch
\* writes the value once and the pad block pad_count times, and every render
\* that starts reaches Done.
C10_SinglePass ==
    /\ []C10_SinglePassInv
    /\ (pc = "start") ~> Done

C10_Witness ==
    /\ Succeeded
    /\ call = 2
    /\ padBranches = 1
    /\ measures = 1
    /\ valueWrites = 1
    /\ padWrites = 3

====
